---- MODULE Spec2Model ----
(***************************************************************************)
(* A model of the Eikobot Hyper-V handlers (src/hyper_v/__init__.py).      *)
(*                                                                         *)
(* One handler works on one resource through one HandlerContext.  The      *)
(* remote hypervisor is a record `remote`; every command a handler sends   *)
(* to it is appended to `calls`.  Each handler method is an operator from  *)
(* a run record [ctx, calls, raised] to the run record it leaves behind,   *)
(* and one action of the state machine.                                    *)
(*                                                                         *)
(* Python values that may be None are tuples of length 0 or 1:             *)
(* None is << >>, the value v is <<v>>.                                    *)
(* Text is a sequence of tokens, so that `phrase in text` is a real        *)
(* sub-sequence test.  A path is a sequence of components.                 *)
(***************************************************************************)
EXTENDS Integers, Sequences, FiniteSets, TLC

VARIABLES
    handler,    \* the handler class the orchestrator dispatches to
    resource,   \* ctx.resource, the desired-state descriptor
    ctx,        \* the HandlerContext: deployed, failed, changes, extras
    raised,     \* "" or the exception that ended the last handler call
    calls,      \* commands and scripts sent to the remote executor, this pass
    remote,     \* the state of the remote hypervisor
    pc,         \* "idle", or the handler method that ran last in this pass
    pass,       \* number of the reconciliation pass
    ops         \* the handler methods run so far, all passes

vars == <<handler, resource, ctx, raised, calls, remote, pc, pass, ops>>

----------------------------------------------------------------------------
(* Bounds *)

MaxPass == 2        \* reconciliation passes per behaviour
MaxSwitches == 2    \* declared switches per VM
MaxVhds == 2        \* declared disks per VM
MaxDrives == 2      \* hard drives the remote VM reports

----------------------------------------------------------------------------
(* Python values *)

None == << >>
Some(v) == <<v>>
IsNone(x) == x = None
Val(x) == x[1]
OptBool == {None, Some(TRUE), Some(FALSE)}

\* str() of an optional bool, as an f-string renders it
PyStr(x) == IF IsNone(x) THEN "None" ELSE IF Val(x) THEN "True" ELSE "False"

EmptyDict == [k \in {} |-> None]

\* dict.get(key): None when the key is missing
DictGet(d, k) == IF k \in DOMAIN d THEN d[k] ELSE None

\* d[key] = value
DictSet(d, k, v) == [x \in (DOMAIN d) \cup {k} |-> IF x = k THEN v ELSE d[x]]

\* `phrase in text`
Contains(text, phrase) ==
    \E i \in 1..(Len(text) - Len(phrase) + 1) :
        SubSeq(text, i, i + Len(phrase) - 1) = phrase

\* the elements of a sequence
Range(s) == {s[i] : i \in 1..Len(s)}

\* all sequences over S of length at most n
SeqsUpTo(S, n) == UNION {[1..k -> S] : k \in 0..n}

----------------------------------------------------------------------------
(* The class hierarchy of the resource models *)

SubclassesOf(cls) ==
    IF cls = "VMSwitch"
    THEN {"VMSwitch", "InternalSwitch", "PrivateSwitch", "ExternalSwitch"}
    ELSE {cls}

isinstance(res, cls) == res.kind \in SubclassesOf(cls)

----------------------------------------------------------------------------
(* The handler context *)

NewContext == [deployed |-> FALSE, failed |-> FALSE,
               changes |-> EmptyDict, extras |-> EmptyDict]

NewRun == [ctx |-> NewContext, calls |-> << >>, raised |-> ""]

\* ctx.failed = True
SetFailed(r) == [r EXCEPT !.ctx.failed = TRUE]

\* ctx.deployed = value
SetDeployed(r, b) == [r EXCEPT !.ctx.deployed = b]

\* ctx.add_change(key, value)
add_change(r, k, v) == [r EXCEPT !.ctx.changes = DictSet(@, k, v)]

\* an exception leaves the handler
Raise(r, exc) == [r EXCEPT !.raised = exc]

\* the command is sent to the remote executor
Sent(r, cmd) == [r EXCEPT !.calls = Append(@, cmd)]

----------------------------------------------------------------------------
(* The remote executor and the hypervisor behind it *)

SwitchNotFoundPhrase ==
    <<"Hyper-V", "was", "unable", "to", "find", "a", "virtual", "switch">>
VMNotFoundPhrase ==
    <<"Hyper-V", "was", "unable", "to", "find", "a", "virtual", "machine">>
VHDNotFoundPhrase ==
    <<"is", "not", "an", "existing", "virtual", "hard", "disk", "file.">>

\* a JSON object: the keys whose value is not null
JsonObject(rec) == [k \in {x \in DOMAIN rec : ~IsNone(rec[x])} |-> rec[k]]

\* what the remote executor returns: the text, and the object it encodes
JsonOutput(obj) == [text |-> <<"{", "}">>, obj |-> obj]
ErrorOutput(cmdlet, phrase, what) ==
    [text |-> <<cmdlet, ":">> \o phrase \o <<"with", "name">> \o <<what>>,
     obj |-> EmptyDict]

\* json.loads(result.output)
json_loads(out) == out.obj

\* Get-WindowsOptionalFeature -Online -FeatureName Microsoft-Hyper-V | ConvertTo-Json
Get_WindowsOptionalFeature(rem) ==
    JsonOutput(JsonObject([FeatureName |-> Some("Microsoft-Hyper-V"),
                           State |-> rem.State]))

\* Get-VMSwitch -Name "<name>" | convertto-json
Get_VMSwitch(rem, name) ==
    IF rem.switch.present
    THEN JsonOutput(JsonObject([Name |-> Some(name),
                                IovEnabled |-> rem.switch.IovEnabled,
                                AllowManagementOS |-> rem.switch.AllowManagementOS]))
    ELSE ErrorOutput("Get-VMSwitch", SwitchNotFoundPhrase, name)

\* (Get-NetAdapter -InterfaceDescription (Get-VMSwitch "<name>")...).name
Get_NetAdapter(rem, name) == rem.switch.adapter

\* Get-VHD "<path>" | ConvertTo-Json
Get_VHD(rem, path) ==
    IF rem.vhd.present
    THEN JsonOutput(JsonObject([Path |-> Some(path)]))
    ELSE [text |-> <<"Get-VHD", ":">> \o <<"'x'">> \o VHDNotFoundPhrase,
          obj |-> EmptyDict]

\* the value a clause of a switch command carries, None when the command has none
ClauseOf(cmd, flag) ==
    IF \E i \in 1..Len(cmd.clauses) : cmd.clauses[i].flag = flag
    THEN Some((CHOOSE c \in Range(cmd.clauses) : c.flag = flag).value)
    ELSE None

\* a boolean literal of the shell: $True, $False
ShellBool(text, old) ==
    IF text = "True" THEN Some(TRUE) ELSE IF text = "False" THEN Some(FALSE) ELSE old

\* the hypervisor runs New-VMSwitch
ApplyNewVMSwitch(rem, cmd) ==
    IF rem.switch.present THEN rem
    ELSE LET a == ClauseOf(cmd, "-NetAdapterName")
             m == ClauseOf(cmd, "-AllowManagementOS")
             v == ClauseOf(cmd, "-EnableIov")
         IN [rem EXCEPT !.switch =
               [present |-> TRUE,
                adapter |-> IF IsNone(a) THEN "" ELSE Val(a),
                AllowManagementOS |->
                    IF IsNone(m) THEN Some(cmd.type # "Private")
                    ELSE ShellBool(Val(m), Some(TRUE)),
                IovEnabled |->
                    IF IsNone(v) THEN Some(FALSE) ELSE ShellBool(Val(v), Some(FALSE))]]

\* the hypervisor runs Set-VMSwitch, applying every clause as written
ApplySetVMSwitch(rem, cmd) ==
    IF ~rem.switch.present THEN rem
    ELSE LET a == ClauseOf(cmd, "-NetAdapterName")
             m == ClauseOf(cmd, "-AllowManagementOS")
             v == ClauseOf(cmd, "-EnableIov")
         IN [rem EXCEPT !.switch =
               [present |-> TRUE,
                adapter |-> IF IsNone(a) THEN @.adapter ELSE Val(a),
                AllowManagementOS |->
                    IF IsNone(m) THEN @.AllowManagementOS
                    ELSE ShellBool(Val(m), @.AllowManagementOS),
                IovEnabled |->
                    IF IsNone(v) THEN @.IovEnabled ELSE ShellBool(Val(v), @.IovEnabled)]]

\* the hypervisor runs New-VHD
ApplyNewVHD(rem, cmd) == [rem EXCEPT !.vhd.present = TRUE]

----------------------------------------------------------------------------
(* HyperVHostHandler *)

\* HostHandler.execute of the framework: connects and probes the host
HostHandler_execute(r) == SetDeployed(r, TRUE)

\* "10" in os_string
IsWindows10(os_string) == Contains(os_string, <<"1", "0">>)

\* a variant that takes any reported state for "installed"
FeatureInstalled_AnyState(output_dict) == ~IsNone(DictGet(output_dict, "State"))

\* output_dict.get("State") == 2
FeatureInstalled(output_dict) == DictGet(output_dict, "State") = Some(2)

FeatureQuery == [via |-> "execute", cmd |-> "Get-WindowsOptionalFeature"]

HyperVHostHandler_execute(r, res, rem) ==
    IF ~isinstance(res, "HyperVHost") THEN SetFailed(r)
    ELSE
    LET r1 == SetDeployed(HostHandler_execute(r), FALSE) IN
    IF ~rem.is_windows_host THEN SetFailed(r1)
    ELSE
    LET probed == IsWindows10(rem.os_version)
        r2 == IF probed THEN Sent(r1, FeatureQuery) ELSE r1
    IN  IF probed /\ FeatureInstalled(json_loads(Get_WindowsOptionalFeature(rem)))
        THEN SetDeployed(r2, TRUE)
        ELSE IF res.install THEN r2 ELSE SetFailed(r2)

----------------------------------------------------------------------------
(* VMSwitchHandler and the Internal, Private and External handlers *)

\* "Hyper-V was unable to find a virtual switch" in get_switch_res.output
SwitchNotFound(out) == Contains(out.text, SwitchNotFoundPhrase)

VMSwitchHandler_read(r, res, rem) ==
    IF ~isinstance(res, "VMSwitch") THEN SetFailed(r)
    ELSE
    LET r1 == Sent(r, [via |-> "execute", cmd |-> "Get-VMSwitch", name |-> res.name])
        get_switch_res == Get_VMSwitch(rem, res.name)
    IN  IF SwitchNotFound(get_switch_res) THEN r1
        ELSE [SetDeployed(r1, TRUE) EXCEPT
                !.ctx.extras = DictSet(@, "info", json_loads(get_switch_res))]

NewVMSwitch(res, type, clauses) ==
    [via |-> "execute", cmd |-> "New-VMSwitch", name |-> res.name,
     type |-> type, clauses |-> clauses]

InternalSwitchHandler_create(r, res) ==
    IF ~isinstance(res, "InternalSwitch") THEN SetFailed(r)
    ELSE SetDeployed(Sent(r, NewVMSwitch(res, "Internal", << >>)), TRUE)

PrivateSwitchHandler_create(r, res) ==
    IF ~isinstance(res, "PrivateSwitch") THEN SetFailed(r)
    ELSE SetDeployed(Sent(r, NewVMSwitch(res, "Private", << >>)), TRUE)

\* the name read compares the bound adapter's name with
AdapterNameWanted(res) == res.name

\* the comparisons of ExternalSwitchHandler.read, after the lookup
ExternalSwitchDiff(r1, res, rem) ==
    LET info == r1.ctx.extras["info"]
        r2 == IF DictGet(info, "IovEnabled") # res.enable_Iov
              THEN add_change(r1, "IovEnabled", res.enable_Iov) ELSE r1
        r3 == IF DictGet(info, "AllowManagementOS") # res.allow_management_OS
              THEN add_change(r2, "AllowManagementOS", res.allow_management_OS)
              ELSE r2
        r4 == Sent(r3, [via |-> "execute", cmd |-> "Get-NetAdapter",
                        name |-> res.name])
        net_adapter_name == Get_NetAdapter(rem, res.name)
    IN  IF net_adapter_name # AdapterNameWanted(res)
        THEN add_change(r4, "NetAdapterName", Some(AdapterNameWanted(res)))
        ELSE r4

ExternalSwitchHandler_read(r, res, rem) ==
    IF ~isinstance(res, "ExternalSwitch") THEN SetFailed(r)
    ELSE
    LET r1 == VMSwitchHandler_read(r, res, rem) IN
    \* ctx["info"]: nothing was stored when the switch was not found
    IF "info" \notin DOMAIN r1.ctx.extras THEN Raise(r1, "KeyError")
    ELSE ExternalSwitchDiff(r1, res, rem)

Clause(flag, value) == [flag |-> flag, value |-> value]

ExternalSwitchHandler_create(r, res) ==
    IF ~isinstance(res, "ExternalSwitch") THEN SetFailed(r)
    ELSE
    LET c1 == <<Clause("-NetAdapterName", res.net_adapter_name)>>
        c2 == IF ~IsNone(res.allow_management_OS)
              THEN <<Clause("-AllowManagementOS", PyStr(res.allow_management_OS))>>
              ELSE << >>
        c3 == IF ~IsNone(res.enable_Iov)
              THEN <<Clause("-EnableIov", PyStr(res.enable_Iov))>>
              ELSE << >>
    IN  SetDeployed(Sent(r, NewVMSwitch(res, "External", c1 \o c2 \o c3)), TRUE)

\* `ctx.changes.get(key) is not None`: the test that adds the key's clause
ChangeRequested(changes, key) == ~IsNone(DictGet(changes, key))

ExternalSwitchHandler_update(r, res) ==
    IF ~isinstance(res, "ExternalSwitch") THEN SetFailed(r)
    ELSE
    LET changes == r.ctx.changes
        c1 == IF ChangeRequested(changes, "NetAdapterName")
              THEN <<Clause("-NetAdapterName", Val(DictGet(changes, "NetAdapterName")))>>
              ELSE << >>
        c2 == IF ChangeRequested(changes, "IovEnabled")
              THEN <<Clause("-EnableIov", PyStr(res.enable_Iov))>>
              ELSE << >>
        c3 == IF ChangeRequested(changes, "AllowManagementOS")
              THEN <<Clause("-AllowManagementOS", PyStr(res.allow_management_OS))>>
              ELSE << >>
        cmd == [via |-> "execute", cmd |-> "Set-VMSwitch", name |-> res.name,
                clauses |-> c1 \o c2 \o c3]
    IN  SetDeployed(Sent(r, cmd), TRUE)

----------------------------------------------------------------------------
(* VHDHandler *)

VHDHandler_create(r, res) ==
    IF ~isinstance(res, "VHD") THEN SetFailed(r)
    ELSE SetDeployed(Sent(r, [via |-> "execute", cmd |-> "New-VHD",
                              path |-> res.path, type |-> res.vhd_type,
                              size |-> res.size]), TRUE)

\* "is not an existing virtual hard disk file." not in result.output
VHDFound(out) == ~Contains(out.text, VHDNotFoundPhrase)

VHDHandler_read(r, res, rem) ==
    IF ~isinstance(res, "VHD") THEN SetFailed(r)
    ELSE
    LET r1 == Sent(r, [via |-> "execute", cmd |-> "Get-VHD", path |-> res.path])
    IN  IF VHDFound(Get_VHD(rem, res.path)) THEN SetDeployed(r1, TRUE) ELSE r1

----------------------------------------------------------------------------
(* VMHandler: helpers *)

\* pathlib.Path(text): empty components (a doubled or trailing slash) vanish
NonEmpty(c) == c # ""
Path(text) == SelectSeq(text, NonEmpty)

\* path / "VM/<name>"
JoinVM(path, name) == path \o <<"VM", name>>

\* bytes per unit of a human-readable size
UnitFactor(unit) ==
    CASE unit = "B" -> 1
      [] unit = "KB" -> 1024
      [] unit = "MB" -> 1024 * 1024
      [] unit = "GB" -> 1024 * 1024 * 1024

\* machine_readable(size): the byte count of a size such as "1024MB"
machine_readable(size) == size.n * UnitFactor(size.unit)

\* dict.get(key, default)
DictGetDefault(d, k, default) == IF k \in DOMAIN d THEN Val(d[k]) ELSE default

\* the fields VMHandler reads from ctx.resource
VMAttrs == {"name", "vm_host", "path", "cpu_count", "boot_device", "vhds",
            "switches", "iso_path", "startup_ram", "dynamic_ram", "min_ram",
            "max_ram", "automatic_start_action", "automatic_stop_action",
            "automatic_start_delay", "secure_boot", "secure_boot_template"}

HasAttrs(res, attrs) == attrs \subseteq DOMAIN res

AddDiskCmd(vm, vhd) ==
    [cmd |-> "Add-VMHardDiskDrive", vm |-> vm.name, path |-> vhd.path]

----------------------------------------------------------------------------
(* VMHandler.create *)

NewItemCmd(vm) == [cmd |-> "New-Item", path |-> Val(vm.path) \o <<"VM">>]

NewVMCmd(vm) ==
    [cmd |-> "New-VM", vm |-> vm.name, startup |-> vm.startup_ram,
     path |-> vm.path, boot_cd |-> ~IsNone(vm.iso_path)]

SetVMCmd(vm) == [cmd |-> "Set-VM", vm |-> vm.name, count |-> vm.cpu_count]

SetVMMemoryCmd(vm) ==
    [cmd |-> "Set-VMMemory", vm |-> vm.name, dynamic |-> vm.dynamic_ram,
     min |-> IF vm.dynamic_ram THEN Some(vm.min_ram) ELSE None,
     max |-> IF vm.dynamic_ram THEN Some(vm.max_ram) ELSE None]

SetVMFirmwareCmd(vm) ==
    [cmd |-> "Set-VMFirmware", vm |-> vm.name,
     secure_boot |-> IF Val(vm.secure_boot) THEN "On" ELSE "Off",
     template |-> IF ~IsNone(vm.secure_boot_template)
                  THEN Some("MicrosoftUEFICertificateAuthority") ELSE None]

SetVMDvdDriveCmd(vm) ==
    [cmd |-> "Set-VMDvdDrive", vm |-> vm.name, path |-> Val(vm.iso_path)]

RemoveAdapterCmd(vm) ==
    [cmd |-> "Remove-VMNetworkAdapter", vm |-> vm.name, adapter |-> "Network Adapter"]

AddAdapterCmd(vm, switch) ==
    [cmd |-> "Add-VMNetworkAdapter", vm |-> vm.name, adapter |-> switch.name]

ConnectAdapterCmd(vm, switch) ==
    [cmd |-> "Connect-VMNetworkAdapter", vm |-> vm.name, adapter |-> switch.name,
     switch |-> switch.name]

\* a variant that adds every adapter before it connects any
AdapterLines_AddsThenConnects(vm) ==
    [i \in 1..Len(vm.switches) |-> AddAdapterCmd(vm, vm.switches[i])]
    \o [i \in 1..Len(vm.switches) |-> ConnectAdapterCmd(vm, vm.switches[i])]

\* the Add/Connect lines of the switches, in declaration order
AdapterLines(vm) ==
    [i \in 1..(2 * Len(vm.switches)) |->
        IF i % 2 = 1 THEN AddAdapterCmd(vm, vm.switches[(i + 1) \div 2])
        ELSE ConnectAdapterCmd(vm, vm.switches[i \div 2])]

\* the Add-VMHardDiskDrive lines of the disks, in declaration order
DiskLines(vm) == [i \in 1..Len(vm.vhds) |-> AddDiskCmd(vm, vm.vhds[i])]

\* the script VMHandler.create builds, line by line
CreateScript(vm) ==
    (IF ~IsNone(vm.path) THEN <<NewItemCmd(vm)>> ELSE << >>)
    \o <<NewVMCmd(vm), SetVMCmd(vm), SetVMMemoryCmd(vm)>>
    \o (IF ~IsNone(vm.secure_boot) THEN <<SetVMFirmwareCmd(vm)>> ELSE << >>)
    \o (IF ~IsNone(vm.iso_path) THEN <<SetVMDvdDriveCmd(vm)>> ELSE << >>)
    \o DiskLines(vm)
    \o <<RemoveAdapterCmd(vm)>>
    \o AdapterLines(vm)

VMHandler_create(r, vm) ==
    \* no isinstance test: a resource without the VM's fields fails on the
    \* first field it lacks, before the script is sent
    IF ~HasAttrs(vm, VMAttrs) THEN Raise(r, "AttributeError")
    ELSE SetDeployed(Sent(r, [via |-> "script", cmd |-> "powershell",
                              script |-> CreateScript(vm)]), TRUE)

----------------------------------------------------------------------------
(* VMHandler.read *)

\* Get-VM "<name>" | ConvertTo-Json
Get_VM(rem, name) ==
    IF rem.vm.present
    THEN JsonOutput(JsonObject(
            [ConfigurationLocation |-> Some(rem.vm.ConfigurationLocation),
             HardDrives |-> rem.vm.HardDrives,
             NetworkAdapters |-> rem.vm.NetworkAdapters,
             MemoryStartup |-> rem.vm.MemoryStartup,
             DynamicMemoryEnabled |-> rem.vm.DynamicMemoryEnabled,
             MemoryMinimum |-> rem.vm.MemoryMinimum,
             MemoryMaximum |-> rem.vm.MemoryMaximum]))
    ELSE ErrorOutput("Get-VM", VMNotFoundPhrase, name)

\* Get-VMProcessor "<name>" | ConvertTo-Json
Get_VMProcessor(rem, name) == JsonOutput(JsonObject([Count |-> rem.vm.Count]))

\* (Get-VM "<name>").<property>
Get_VMProperty(rem, name, property) == rem.vm[property]

VMQuery(vm, cmd) == [via |-> "execute", cmd |-> cmd, vm |-> vm.name]

\* "Hyper-V was unable to find a virtual machine" in results.output
VMNotFound(out) == Contains(out.text, VMNotFoundPhrase)

\* the path comparison of read
ComparePath(r, vm, vm_dict) ==
    LET path == Path(Val(DictGet(vm_dict, "ConfigurationLocation")))
    IN  IF ~IsNone(vm.path) /\ path # JoinVM(Val(vm.path), vm.name)
        THEN [r EXCEPT !.ctx.changes = DictSet(@, "path", Some(path))]
        ELSE r

_get_cpu_changes(r, vm, rem) ==
    LET r1 == Sent(r, VMQuery(vm, "Get-VMProcessor"))
        cpu_dict == json_loads(Get_VMProcessor(rem, vm.name))
        cpu_count == DictGetDefault(cpu_dict, "Count", 1)
    IN  IF cpu_count # vm.cpu_count
        THEN [r1 EXCEPT !.ctx.changes = DictSet(@, "cpu_count", Some(cpu_count))]
        ELSE r1

\* a variant that looks at the first observed drive only
MissingVhds_FirstDriveOnly(vm, vhds) ==
    LET Unmatched(vhd) == vhds = << >> \/ vhd.path # Path(vhds[1].Path)
    IN  SelectSeq(vm.vhds, Unmatched)

\* the for/else of _compare_vhds: the declared disks no observed drive matches
MissingVhds(vm, vhds) ==
    LET Unmatched(vhd) == ~\E i \in 1..Len(vhds) : vhd.path = Path(vhds[i].Path)
    IN  SelectSeq(vm.vhds, Unmatched)

_compare_vhds(r, vm, vhds) ==
    LET missing == MissingVhds(vm, vhds)
        vhd_cmds == [i \in 1..Len(missing) |-> AddDiskCmd(vm, missing[i])]
    IN  IF vhd_cmds # << >> THEN add_change(r, "VHDs", Some(vhd_cmds)) ELSE r

_compare_net_adapters(vm, net_adapters) ==
    LET Unattached(switch) ==
            ~\E i \in 1..Len(net_adapters) :
                Some(switch.name) = net_adapters[i].SwitchName
    IN  SelectSeq(vm.switches, Unattached)

\* a variant that compares the limits when the host has dynamic RAM on,
\* not when the descriptor asks for it
_compare_ram_ObservedFlag(r, vm, vm_dict) ==
    LET observed == DictGet(vm_dict, "DynamicMemoryEnabled") = Some(TRUE)
        r1 == IF DictGet(vm_dict, "MemoryStartup") # Some(machine_readable(vm.startup_ram))
              THEN add_change(r, "startup_ram", Some(vm.startup_ram)) ELSE r
        r2 == IF DictGet(vm_dict, "DynamicMemoryEnabled") # Some(vm.dynamic_ram)
              THEN add_change(r1, "dynamic_ram", Some(vm.dynamic_ram)) ELSE r1
        r3 == IF observed
                 /\ DictGet(vm_dict, "MemoryMinimum") # Some(machine_readable(vm.min_ram))
              THEN add_change(r2, "min_ram", Some(vm.min_ram)) ELSE r2
        r4 == IF observed
                 /\ DictGet(vm_dict, "MemoryMaximum") # Some(machine_readable(vm.max_ram))
              THEN add_change(r3, "max_ram", Some(vm.max_ram)) ELSE r3
    IN  r4

_compare_ram(r, vm, vm_dict) ==
    LET r1 == IF DictGet(vm_dict, "MemoryStartup") # Some(machine_readable(vm.startup_ram))
              THEN add_change(r, "startup_ram", Some(vm.startup_ram)) ELSE r
        r2 == IF DictGet(vm_dict, "DynamicMemoryEnabled") # Some(vm.dynamic_ram)
              THEN add_change(r1, "dynamic_ram", Some(vm.dynamic_ram)) ELSE r1
        r3 == IF vm.dynamic_ram
                 /\ DictGet(vm_dict, "MemoryMinimum") # Some(machine_readable(vm.min_ram))
              THEN add_change(r2, "min_ram", Some(vm.min_ram)) ELSE r2
        r4 == IF vm.dynamic_ram
                 /\ DictGet(vm_dict, "MemoryMaximum") # Some(machine_readable(vm.max_ram))
              THEN add_change(r3, "max_ram", Some(vm.max_ram)) ELSE r3
    IN  r4

\* a str output compared with an int field: never equal in Python
StrDiffersFromInt(text, number) == TRUE

\* one declared option of _compare_startup_options: its query, its comparison
CompareOption(r, vm, rem, field, property, differs) ==
    IF IsNone(vm[field]) THEN r
    ELSE LET r1 == Sent(r, VMQuery(vm, property)) IN
         IF differs THEN add_change(r1, field, vm[field]) ELSE r1

_compare_startup_options(r, vm, rem) ==
    LET r1 == CompareOption(r, vm, rem, "automatic_start_action", "AutomaticStartAction",
                Some(Get_VMProperty(rem, vm.name, "AutomaticStartAction"))
                    # vm.automatic_start_action)
        r2 == CompareOption(r1, vm, rem, "automatic_start_delay", "AutomaticStartDelay",
                StrDiffersFromInt(Get_VMProperty(rem, vm.name, "AutomaticStartDelay"),
                                  vm.automatic_start_delay))
        r3 == CompareOption(r2, vm, rem, "automatic_stop_action", "AutomaticStopAction",
                Some(Get_VMProperty(rem, vm.name, "AutomaticStopAction"))
                    # vm.automatic_stop_action)
    IN  r3

_compare_secure_boot(r, vm, rem) ==
    IF IsNone(vm.secure_boot) THEN r
    ELSE
    LET secure_boot == Get_VMProperty(rem, vm.name, "SecureBoot")
        r1 == Sent(r, VMQuery(vm, "SecureBoot"))
        r2 == IF (secure_boot = "On") = Val(vm.secure_boot)
              THEN add_change(r1, "secure_boot", vm.secure_boot) ELSE r1
    IN  IF IsNone(vm.secure_boot_template) THEN r2
        ELSE LET r3 == Sent(r2, VMQuery(vm, "SecureBoot")) IN
             IF Some(secure_boot) = vm.secure_boot_template
             THEN add_change(r3, "secure_boot_template", vm.secure_boot_template)
             ELSE r3

\* read, once the VM was found
VMDiff(r1, vm, rem, vm_dict) ==
    LET r2 == ComparePath(r1, vm, vm_dict)
        r3 == _get_cpu_changes(r2, vm, rem)
        r4 == _compare_vhds(r3, vm, DictGetDefault(vm_dict, "HardDrives", << >>))
        added_adapters ==
            _compare_net_adapters(vm, DictGetDefault(vm_dict, "NetworkAdapters", << >>))
        r5 == IF added_adapters # << >>
              THEN add_change(r4, "net_adapters", Some(added_adapters)) ELSE r4
        r6 == _compare_ram(r5, vm, vm_dict)
        r7 == _compare_startup_options(r6, vm, rem)
        r8 == _compare_secure_boot(r7, vm, rem)
    IN  SetDeployed(r8, TRUE)

\* a variant that queries the processor before it looks at the lookup's output
VMHandler_read_CpuFirst(r, vm, rem) ==
    IF ~HasAttrs(vm, {"name", "vm_host"}) THEN Raise(r, "AttributeError")
    ELSE
    LET r1 == Sent(r, VMQuery(vm, "Get-VM"))
        results == Get_VM(rem, vm.name)
    IN  IF ~HasAttrs(vm, VMAttrs) THEN Raise(r1, "AttributeError")
        ELSE IF VMNotFound(results) THEN Sent(r1, VMQuery(vm, "Get-VMProcessor"))
        ELSE VMDiff(r1, vm, rem, json_loads(results))

VMHandler_read(r, vm, rem) ==
    \* no isinstance test: any resource with a name and a host is looked up
    IF ~HasAttrs(vm, {"name", "vm_host"}) THEN Raise(r, "AttributeError")
    ELSE
    LET r1 == Sent(r, VMQuery(vm, "Get-VM"))
        results == Get_VM(rem, vm.name)
    IN  IF VMNotFound(results) THEN r1
        ELSE IF ~HasAttrs(vm, VMAttrs) THEN Raise(r1, "AttributeError")
        ELSE VMDiff(r1, vm, rem, json_loads(results))

----------------------------------------------------------------------------
(* The hypervisor runs what it is sent *)

DefaultLocation == <<"C:", "ProgramData", "Hyper-V">>

LinesOf(script, cmdlet) ==
    LET Is(line) == line.cmd = cmdlet IN SelectSeq(script, Is)

\* the hypervisor runs the script of VMHandler.create
ApplyVMScript(rem, script) ==
    IF rem.vm.present \/ LinesOf(script, "New-VM") = << >> THEN rem
    ELSE
    LET new == LinesOf(script, "New-VM")[1]
        mem == LinesOf(script, "Set-VMMemory")[1]
        fw == LinesOf(script, "Set-VMFirmware")
        disks == LinesOf(script, "Add-VMHardDiskDrive")
        nics == LinesOf(script, "Connect-VMNetworkAdapter")
    IN  [rem EXCEPT !.vm =
          [present |-> TRUE,
           ConfigurationLocation |->
               IF IsNone(new.path) THEN DefaultLocation \o <<new.vm>>
               ELSE JoinVM(Val(new.path), new.vm),
           Count |-> Some(LinesOf(script, "Set-VM")[1].count),
           HardDrives |-> Some([i \in 1..Len(disks) |-> [Path |-> disks[i].path]]),
           NetworkAdapters |->
               Some([i \in 1..Len(nics) |-> [SwitchName |-> Some(nics[i].switch)]]),
           MemoryStartup |-> Some(machine_readable(new.startup)),
           DynamicMemoryEnabled |-> Some(mem.dynamic),
           MemoryMinimum |->
               IF mem.dynamic THEN Some(machine_readable(Val(mem.min)))
               ELSE @.MemoryMinimum,
           MemoryMaximum |->
               IF mem.dynamic THEN Some(machine_readable(Val(mem.max)))
               ELSE @.MemoryMaximum,
           AutomaticStartAction |-> "StartIfRunning",
           AutomaticStartDelay |-> "0",
           AutomaticStopAction |-> "Save",
           SecureBoot |-> IF fw = << >> THEN "On" ELSE fw[1].secure_boot]]

\* the hypervisor runs one command; a query changes nothing
Apply(rem, cmd) ==
    CASE cmd.cmd = "New-VMSwitch" -> ApplyNewVMSwitch(rem, cmd)
      [] cmd.cmd = "Set-VMSwitch" -> ApplySetVMSwitch(rem, cmd)
      [] cmd.cmd = "New-VHD" -> ApplyNewVHD(rem, cmd)
      [] cmd.via = "script" -> ApplyVMScript(rem, cmd.script)
      [] OTHER -> rem

RECURSIVE ApplyAll(_, _)
ApplyAll(rem, cmds) ==
    IF cmds = << >> THEN rem ELSE ApplyAll(Apply(rem, Head(cmds)), Tail(cmds))

----------------------------------------------------------------------------
(* The inputs: descriptors and remote states *)

SwitchNames == {"sw0", "eth0"}
AdapterNames == {"eth0", "eth1"}

InternalSwitches ==
    {[kind |-> "InternalSwitch", name |-> n, vm_host |-> "hv"] : n \in SwitchNames}
PrivateSwitches ==
    {[kind |-> "PrivateSwitch", name |-> n, vm_host |-> "hv"] : n \in SwitchNames}
ExternalSwitches ==
    {[kind |-> "ExternalSwitch", name |-> n, vm_host |-> "hv",
      net_adapter_name |-> a, allow_management_OS |-> m, enable_Iov |-> v] :
        n \in SwitchNames, a \in AdapterNames, m \in OptBool, v \in OptBool}

Hosts == {[kind |-> "HyperVHost", host |-> "hv", install |-> i] : i \in BOOLEAN}

DiskPaths == {<<"D:", "a.vhdx">>, <<"D:", "b.vhdx">>}
Size(n, unit) == [n |-> n, unit |-> unit]
Disks == {[kind |-> "VHD", path |-> p, vm_host |-> "hv",
           size |-> Size(40, "GB"), vhd_type |-> "Dynamic"] : p \in DiskPaths}

\* VMModel with the defaults of its class
DefaultVM ==
    [kind |-> "VM", name |-> "vm0", vm_host |-> "hv",
     path |-> None, cpu_count |-> 1, boot_device |-> None,
     vhds |-> << >>, switches |-> << >>, iso_path |-> None,
     startup_ram |-> Size(1024, "MB"), dynamic_ram |-> FALSE,
     min_ram |-> Size(512, "MB"), max_ram |-> Size(2048, "MB"),
     automatic_start_action |-> None, automatic_stop_action |-> None,
     automatic_start_delay |-> None,
     secure_boot |-> None, secure_boot_template |-> None]

NoSwitch == [present |-> FALSE, adapter |-> "",
             AllowManagementOS |-> None, IovEnabled |-> None]
NoVHD == [present |-> FALSE]
NoVM == [present |-> FALSE, ConfigurationLocation |-> << >>, Count |-> None,
         HardDrives |-> None, NetworkAdapters |-> None,
         MemoryStartup |-> None, DynamicMemoryEnabled |-> None,
         MemoryMinimum |-> None, MemoryMaximum |-> None,
         AutomaticStartAction |-> "", AutomaticStartDelay |-> "",
         AutomaticStopAction |-> "", SecureBoot |-> ""]

Windows10Pro == <<"W", "i", "n", "d", "o", "w", "s", " ", "1", "0", " ", "P", "r", "o">>

\* a Windows 10 host with Hyper-V installed and nothing on it
QuietRemote ==
    [is_windows_host |-> TRUE, os_version |-> Windows10Pro, State |-> Some(2),
     switch |-> NoSwitch, vhd |-> NoVHD, vm |-> NoVM]


OsStrings ==
    {Windows10Pro,
     <<"W", "i", "n", "d", "o", "w", "s", " ", "1", "1">>,
     <<"1", "0", ".", "0", ".", "2", "2", "0", "0", "0">>,
     <<"S", "e", "r", "v", "e", "r", " ", "2", "0", "1", "9">>,
     <<"6", ".", "1", ".", "0">>}

FeatureStates == {None, Some(0), Some(1), Some(2)}

RemoteHosts ==
    {[QuietRemote EXCEPT !.is_windows_host = w, !.os_version = o, !.State = s] :
        w \in BOOLEAN, o \in OsStrings, s \in FeatureStates}

RemoteSwitches ==
    {NoSwitch} \cup
    {[present |-> TRUE, adapter |-> a, AllowManagementOS |-> m, IovEnabled |-> v] :
        a \in AdapterNames \cup SwitchNames, m \in OptBool, v \in OptBool}

\* one resource of every kind, to hand a handler a resource of another kind
OneOfEach ==
    {CHOOSE s \in InternalSwitches : s.name = "sw0",
     CHOOSE s \in PrivateSwitches : s.name = "sw0",
     CHOOSE s \in ExternalSwitches :
        s.name = "sw0" /\ s.net_adapter_name = "eth0"
        /\ s.allow_management_OS = None /\ s.enable_Iov = None,
     CHOOSE h \in Hosts : ~h.install,
     CHOOSE d \in Disks : d.path = <<"D:", "a.vhdx">>,
     DefaultVM}

OtherKinds(h) == {x \in OneOfEach : x.kind # h}

\* descriptors that vary the optional fields read looks at
VMsForRead ==
    {[DefaultVM EXCEPT !.path = p, !.cpu_count = c,
                       !.automatic_start_action = a, !.automatic_stop_action = o,
                       !.automatic_start_delay = d,
                       !.secure_boot = s, !.secure_boot_template = t] :
        p \in {None, Some(<<"D:", "vms">>)}, c \in {1, 2},
        a \in {None, Some("Start")}, o \in {None, Some("Save")},
        d \in {None, Some(5)}, s \in OptBool, t \in {None, Some("On")}}

SwitchPool == {CHOOSE s \in InternalSwitches : s.name = "sw0",
               CHOOSE s \in ExternalSwitches :
                  s.name = "eth0" /\ s.net_adapter_name = "eth1"
                  /\ s.allow_management_OS = None /\ s.enable_Iov = None}

\* descriptors that vary what create writes into the script
VMsForCreate ==
    {[DefaultVM EXCEPT !.switches = sw, !.vhds = vh, !.path = p, !.iso_path = i,
                       !.dynamic_ram = dyn, !.max_ram = Size(1024, "MB"),
                       !.secure_boot = s] :
        sw \in SeqsUpTo(SwitchPool, MaxSwitches), vh \in SeqsUpTo(Disks, MaxVhds),
        p \in {None, Some(<<"D:", "vms">>)}, i \in {None, Some(<<"D:", "os.iso">>)},
        dyn \in BOOLEAN, s \in OptBool}

\* a VM as Get-VM reports one created from DefaultVM
ObservedDefaultVM ==
    [present |-> TRUE, ConfigurationLocation |-> DefaultLocation \o <<"vm0">>,
     Count |-> Some(1), HardDrives |-> Some(<< >>), NetworkAdapters |-> Some(<< >>),
     MemoryStartup |-> Some(1024 * 1024 * 1024),
     DynamicMemoryEnabled |-> Some(FALSE),
     MemoryMinimum |-> Some(512 * 1024 * 1024), MemoryMaximum |-> None,
     AutomaticStartAction |-> "StartIfRunning", AutomaticStartDelay |-> "0",
     AutomaticStopAction |-> "Save", SecureBoot |-> "On"]

ObservedVMs ==
    {NoVM} \cup
    {[ObservedDefaultVM EXCEPT !.ConfigurationLocation = l, !.Count = c,
                               !.SecureBoot = s, !.AutomaticStartAction = a] :
        l \in {DefaultLocation \o <<"vm0">>, <<"D:", "vms", "VM", "vm0">>},
        c \in {None, Some(2)}, s \in {"On", "Off"},
        a \in {"Start", "StartIfRunning"}}

RamSizes == {Size(1, "MB"), Size(1024, "KB"), Size(2, "MB")}
ObservedBytes == {None, Some(1024 * 1024), Some(2 * 1024 * 1024)}

VMsForRam ==
    {[DefaultVM EXCEPT !.startup_ram = s, !.dynamic_ram = dyn,
                       !.min_ram = lo, !.max_ram = hi] :
        s \in RamSizes, dyn \in BOOLEAN, lo \in RamSizes, hi \in RamSizes}

ObservedRam ==
    {NoVM} \cup
    {[ObservedDefaultVM EXCEPT !.MemoryStartup = s, !.DynamicMemoryEnabled = dyn,
                               !.MemoryMinimum = lo, !.MemoryMaximum = hi] :
        s \in ObservedBytes, dyn \in OptBool, lo \in ObservedBytes,
        hi \in ObservedBytes}

VMsForVhds == {[DefaultVM EXCEPT !.vhds = vh] : vh \in SeqsUpTo(Disks, MaxVhds)}

\* path texts Get-VM may report: one of them spells a.vhdx with a doubled slash
DriveTexts == {<<"D:", "a.vhdx">>, <<"D:", "", "a.vhdx">>, <<"D:", "b.vhdx">>,
               <<"D:", "c.vhdx">>}

ObservedDrives ==
    {NoVM} \cup
    {[ObservedDefaultVM EXCEPT !.HardDrives = h] :
        h \in {None} \cup
              {Some([i \in 1..Len(t) |-> [Path |-> t[i]]]) :
                  t \in SeqsUpTo(DriveTexts, MaxDrives)}}

----------------------------------------------------------------------------
(* The state machine *)

Fresh ==
    /\ ctx = NewContext
    /\ raised = ""
    /\ calls = << >>
    /\ pc = "idle"
    /\ pass = 1
    /\ ops = << >>

InitHost ==
    /\ handler = "HyperVHost"
    /\ resource \in Hosts \cup OtherKinds("HyperVHost")
    /\ remote \in RemoteHosts

InitSwitch ==
    /\ handler \in {"InternalSwitch", "PrivateSwitch", "ExternalSwitch"}
    /\ resource \in {s \in InternalSwitches \cup PrivateSwitches \cup ExternalSwitches :
                        s.kind = handler} \cup OtherKinds(handler)
    /\ remote \in {[QuietRemote EXCEPT !.switch = s] : s \in RemoteSwitches}

InitVHD ==
    /\ handler = "VHD"
    /\ resource \in Disks \cup OtherKinds("VHD")
    /\ remote \in {[QuietRemote EXCEPT !.vhd.present = b] : b \in BOOLEAN}

InitVM ==
    /\ handler = "VM"
    /\ \/ /\ resource \in VMsForRead \cup OtherKinds("VM")
          /\ remote \in {[QuietRemote EXCEPT !.vm = v] : v \in ObservedVMs}
       \/ /\ resource \in VMsForCreate
          /\ remote = QuietRemote

Init == Fresh /\ (InitHost \/ InitSwitch \/ InitVHD \/ InitVM)

InitRam ==
    /\ Fresh
    /\ handler = "VM"
    /\ resource \in VMsForRam
    /\ remote \in {[QuietRemote EXCEPT !.vm = v] : v \in ObservedRam}

InitVhds ==
    /\ Fresh
    /\ handler = "VM"
    /\ resource \in VMsForVhds
    /\ remote \in {[QuietRemote EXCEPT !.vm = v] : v \in ObservedDrives}

Run == [ctx |-> ctx, calls |-> calls, raised |-> raised]

\* the handler method returned (or raised): the context it leaves, and what
\* the hypervisor did with the commands the method sent
Commit(r, op) ==
    /\ ctx' = r.ctx
    /\ raised' = r.raised
    /\ calls' = r.calls
    /\ remote' = ApplyAll(remote, SubSeq(r.calls, Len(calls) + 1, Len(r.calls)))
    /\ pc' = op
    /\ ops' = Append(ops, op)
    /\ UNCHANGED <<handler, resource, pass>>

\* the orchestrator reads first; it creates what read did not find and
\* updates what read found changed.  Every method is also callable by itself.
CanRead == pc = "idle"
ReadOk == pc = "read" /\ raised = "" /\ ~ctx.failed
CanCreate == pc = "idle" \/ (ReadOk /\ ~ctx.deployed)
CanUpdate == pc = "idle" \/ (ReadOk /\ ctx.deployed /\ DOMAIN ctx.changes # {})

HostExecute ==
    /\ handler = "HyperVHost" /\ pc = "idle"
    /\ Commit(HyperVHostHandler_execute(Run, resource, remote), "execute")

SwitchRead ==
    /\ handler \in {"InternalSwitch", "PrivateSwitch"} /\ CanRead
    /\ Commit(VMSwitchHandler_read(Run, resource, remote), "read")

InternalCreate ==
    /\ handler = "InternalSwitch" /\ CanCreate
    /\ Commit(InternalSwitchHandler_create(Run, resource), "create")

PrivateCreate ==
    /\ handler = "PrivateSwitch" /\ CanCreate
    /\ Commit(PrivateSwitchHandler_create(Run, resource), "create")

ExternalRead ==
    /\ handler = "ExternalSwitch" /\ CanRead
    /\ Commit(ExternalSwitchHandler_read(Run, resource, remote), "read")

ExternalCreate ==
    /\ handler = "ExternalSwitch" /\ CanCreate
    /\ Commit(ExternalSwitchHandler_create(Run, resource), "create")

ExternalUpdate ==
    /\ handler = "ExternalSwitch" /\ CanUpdate
    /\ Commit(ExternalSwitchHandler_update(Run, resource), "update")

VHDRead ==
    /\ handler = "VHD" /\ CanRead
    /\ Commit(VHDHandler_read(Run, resource, remote), "read")

VHDCreate ==
    /\ handler = "VHD" /\ CanCreate
    /\ Commit(VHDHandler_create(Run, resource), "create")

VMRead ==
    /\ handler = "VM" /\ CanRead
    /\ Commit(VMHandler_read(Run, resource, remote), "read")

VMCreate ==
    /\ handler = "VM" /\ CanCreate
    /\ Commit(VMHandler_create(Run, resource), "create")

\* the orchestrator starts the next pass with a fresh context
NewPass ==
    /\ pc # "idle" /\ pass < MaxPass
    /\ ctx' = NewContext
    /\ raised' = ""
    /\ calls' = << >>
    /\ pc' = "idle"
    /\ pass' = pass + 1
    /\ UNCHANGED <<handler, resource, remote, ops>>

Next ==
    \/ HostExecute
    \/ SwitchRead \/ InternalCreate \/ PrivateCreate
    \/ ExternalRead \/ ExternalCreate \/ ExternalUpdate
    \/ VHDRead \/ VHDCreate
    \/ VMRead \/ VMCreate
    \/ NewPass

Spec == Init /\ [][Next]_vars

NextVM == VMRead \/ VMCreate \/ NewPass

SpecRam == InitRam /\ [][NextVM]_vars

SpecVhds == InitVhds /\ [][NextVM]_vars

----------------------------------------------------------------------------
(* Properties *)

NoChanges == DOMAIN ctx.changes = {}

\* the commands of this pass that are not queries
CommandsSent(cmdlet) == {i \in 1..Len(calls) : calls[i].cmd = cmdlet}
ScriptsSent == {i \in 1..Len(calls) : calls[i].via = "script"}

SwitchHandlers == {"InternalSwitch", "PrivateSwitch", "ExternalSwitch"}

\* the resource class the handler method tests its resource against
DeclaredKind ==
    IF handler \in {"InternalSwitch", "PrivateSwitch"} /\ pc = "read"
    THEN "VMSwitch" ELSE handler

\* C1: for every switch variant, a read whose Get-VMSwitch output holds the
\* "unable to find a virtual switch" phrase ends normally, with deployed not
\* set, an empty change set and no remote query after the lookup.
C1_AbsentSwitchRead ==
    (/\ handler \in SwitchHandlers /\ resource.kind = handler /\ pc = "read"
     /\ SwitchNotFound(Get_VMSwitch(remote, resource.name)))
    => (/\ raised = ""
        /\ ~ctx.deployed
        /\ NoChanges
        /\ Len(calls) = 1)

\* the External switch as the host reports it equals the descriptor
ExternalInSync ==
    /\ remote.switch.present
    /\ remote.switch.IovEnabled = resource.enable_Iov
    /\ remote.switch.AllowManagementOS = resource.allow_management_OS
    /\ remote.switch.adapter = resource.net_adapter_name

\* C2: for every switch variant, read on a present switch whose observed state
\* equals the descriptor ends with deployed set and an empty change set; for
\* External, NetAdapterName is recorded only when the bound adapter's name
\* differs from net_adapter_name.
C2_InSyncSwitchRead ==
    (/\ handler \in SwitchHandlers /\ resource.kind = handler /\ pc = "read"
     /\ remote.switch.present)
    => (/\ (handler = "ExternalSwitch" => ExternalInSync)
            => (ctx.deployed /\ NoChanges)
        /\ (handler = "ExternalSwitch" /\ "NetAdapterName" \in DOMAIN ctx.changes)
            => remote.switch.adapter # resource.net_adapter_name)

\* a read of a VM the host does not have
AbsentVMRead ==
    /\ handler = "VM" /\ resource.kind = "VM" /\ pc = "read"
    /\ VMNotFound(Get_VM(remote, resource.name))

\* C3: Machine read of a VM the host reports as not found ends with deployed
\* false and an empty change set after exactly one remote call, the Get-VM
\* lookup, whatever optional fields the descriptor declares.
C3_AbsentVMRead ==
    AbsentVMRead
    => (/\ raised = "" /\ ~ctx.failed
        /\ ~ctx.deployed
        /\ NoChanges
        /\ Len(calls) = 1
        /\ calls[1].cmd = "Get-VM")

C3_Witness ==
    /\ AbsentVMRead
    /\ ~IsNone(resource.secure_boot)
    /\ ~IsNone(resource.secure_boot_template)
    /\ ~IsNone(resource.automatic_start_action)
    /\ ~IsNone(resource.automatic_start_delay)
    /\ ~IsNone(resource.automatic_stop_action)
    /\ ~ctx.deployed /\ Len(calls) = 1

\* Machine create returned for a Machine descriptor
VMCreated == handler = "VM" /\ resource.kind = "VM" /\ pc = "create"

AdapterCmdlets == {"Add-VMNetworkAdapter", "Connect-VMNetworkAdapter"}

\* the script is one Remove-VMNetworkAdapter line, after New-VM and the disk
\* lines, followed by an Add/Connect pair per declared switch, in order
ScriptShape(S, vm) ==
    LET N == Len(vm.switches)
        removals == {i \in 1..Len(S) : S[i].cmd = "Remove-VMNetworkAdapter"}
    IN  /\ Cardinality(removals) = 1
        /\ LET k == CHOOSE i \in removals : TRUE IN
           /\ Len(S) = k + 2 * N
           /\ \A i \in 1..(k - 1) : S[i].cmd \notin AdapterCmdlets
           /\ \E i \in 1..(k - 1) :
                /\ S[i].cmd = "New-VM"
                /\ \A j \in 1..(i - 1) : S[j].cmd # "Add-VMHardDiskDrive"
           /\ Cardinality({i \in 1..(k - 1) : S[i].cmd = "Add-VMHardDiskDrive"})
                = Len(vm.vhds)
           /\ \A j \in 1..N :
                /\ S[k + 2 * j - 1].cmd = "Add-VMNetworkAdapter"
                /\ S[k + 2 * j - 1].adapter = vm.switches[j].name
                /\ S[k + 2 * j].cmd = "Connect-VMNetworkAdapter"
                /\ S[k + 2 * j].adapter = vm.switches[j].name
                /\ S[k + 2 * j].switch = vm.switches[j].name

\* C4: Machine create builds a script with exactly one Remove-VMNetworkAdapter
\* line followed by exactly N Add/Connect pairs for the N declared switches, in
\* declaration order, all after New-VM and the disk attachments; the script is
\* submitted exactly once, and deployed is true only once it was submitted.
C4_CreateScript ==
    /\ VMCreated
        => (/\ Cardinality(ScriptsSent) = 1
            /\ calls[Len(calls)].via = "script"
            /\ ScriptShape(calls[Len(calls)].script, resource)
            /\ ctx.deployed)
    /\ (handler = "VM" /\ resource.kind = "VM" /\ ctx.deployed /\ ScriptsSent = {})
        => pc = "read"

C4_Witness ==
    /\ VMCreated
    /\ Len(resource.switches) = 2
    /\ resource.switches[1].name # resource.switches[2].name
    /\ Len(resource.vhds) = 2
    /\ ~IsNone(resource.iso_path)
    /\ ctx.deployed
    /\ Cardinality(ScriptsSent) = 1

\* host execute returned for a Host descriptor on a Windows host
HostDone ==
    /\ handler = "HyperVHost" /\ resource.kind = "HyperVHost" /\ pc = "execute"
    /\ remote.is_windows_host

Detected == Contains(remote.os_version, <<"1", "0">>) /\ remote.State = Some(2)

\* C5: on a Windows host, host execute reports deployed without failed exactly
\* when the OS string contains "10" and the feature query returns State 2; an
\* OS string without "10" is never probed; Hyper-V not detected gives failed and
\* not deployed when install is false, and neither, with no corrective command,
\* when install is true.
C5_HostExecute ==
    HostDone
    => (/\ (ctx.deployed /\ ~ctx.failed) <=> Detected
        /\ ~Contains(remote.os_version, <<"1", "0">>) => calls = << >>
        /\ (~Detected /\ ~resource.install) => (ctx.failed /\ ~ctx.deployed)
        /\ (~Detected /\ resource.install) => (~ctx.failed /\ ~ctx.deployed)
        /\ \A i \in 1..Len(calls) : calls[i] = FeatureQuery
        /\ Len(calls) <= 1
        /\ raised = "")

C5_Witness ==
    /\ HostDone
    /\ Contains(remote.os_version, <<"1", "0">>)
    /\ remote.State = Some(1)
    /\ ~resource.install
    /\ ctx.failed /\ ~ctx.deployed
    /\ calls = <<FeatureQuery>>

\* C6: any handler method run on a resource that is no instance of the class
\* the method is declared for sets failed and returns before any remote command
\* or script, leaving deployed and the change set untouched.
C6_WrongKind ==
    (/\ pc # "idle" /\ Len(ops) = 1
     /\ ~isinstance(resource, DeclaredKind))
    => (/\ ctx.failed
        /\ raised = ""
        /\ calls = << >>
        /\ ~ctx.deployed
        /\ NoChanges)

SwitchKeys == {"NetAdapterName", "IovEnabled", "AllowManagementOS"}

FlagOf(key) ==
    CASE key = "NetAdapterName" -> "-NetAdapterName"
      [] key = "IovEnabled" -> "-EnableIov"
      [] key = "AllowManagementOS" -> "-AllowManagementOS"

\* C7: External-switch update issues exactly one Set-VMSwitch command, with a
\* clause for every key of NetAdapterName, IovEnabled, AllowManagementOS that
\* is present in the change set, whatever its value, and no other clause.
C7_UpdateClauses ==
    (handler = "ExternalSwitch" /\ resource.kind = handler /\ pc = "update")
    => (/\ Cardinality(CommandsSent("Set-VMSwitch")) = 1
        /\ calls[Len(calls)].cmd = "Set-VMSwitch"
        /\ \A key \in SwitchKeys :
              key \in DOMAIN ctx.changes
              <=> ~IsNone(ClauseOf(calls[Len(calls)], FlagOf(key)))
        /\ Len(calls[Len(calls)].clauses)
              = Cardinality(SwitchKeys \cap DOMAIN ctx.changes))


\* Machine read returned for a Machine the host has
VMReadFound ==
    /\ handler = "VM" /\ resource.kind = "VM" /\ pc = "read"
    /\ remote.vm.present

\* the byte counts of the sizes the descriptors use
ByteCount(size) ==
    CASE size = Size(1, "MB") -> 1048576
      [] size = Size(1024, "KB") -> 1048576
      [] size = Size(2, "MB") -> 2097152

RamKeys == {"startup_ram", "dynamic_ram", "min_ram", "max_ram"}

\* C8: the RAM comparison records independent entries: startup_ram iff the
\* observed MemoryStartup differs from the byte count of startup_ram,
\* dynamic_ram iff DynamicMemoryEnabled differs from dynamic_ram, min_ram and
\* max_ram iff dynamic RAM is requested and the observed minimum, maximum
\* differs from the byte count of min_ram, max_ram; each entry holds the
\* descriptor's value, and nothing is recorded when every compared field matches.
C8_RamEntries ==
    VMReadFound
    => (/\ "startup_ram" \in DOMAIN ctx.changes
            <=> remote.vm.MemoryStartup # Some(ByteCount(resource.startup_ram))
        /\ "dynamic_ram" \in DOMAIN ctx.changes
            <=> remote.vm.DynamicMemoryEnabled # Some(resource.dynamic_ram)
        /\ "min_ram" \in DOMAIN ctx.changes
            <=> (/\ resource.dynamic_ram
                 /\ remote.vm.MemoryMinimum # Some(ByteCount(resource.min_ram)))
        /\ "max_ram" \in DOMAIN ctx.changes
            <=> (/\ resource.dynamic_ram
                 /\ remote.vm.MemoryMaximum # Some(ByteCount(resource.max_ram)))
        /\ \A key \in RamKeys \cap DOMAIN ctx.changes :
              ctx.changes[key] = Some(resource[key])
        /\ ctx.deployed)

C8_Witness ==
    /\ VMReadFound
    /\ resource.dynamic_ram
    /\ resource.startup_ram = Size(1024, "KB")
    /\ remote.vm.MemoryStartup = Some(1048576)
    /\ remote.vm.MemoryMaximum = Some(ByteCount(resource.max_ram))
    /\ remote.vm.MemoryMinimum # Some(ByteCount(resource.min_ram))
    /\ RamKeys \cap DOMAIN ctx.changes = {"min_ram"}

\* the paths of the hard drives the host reports
ObservedPaths ==
    IF IsNone(remote.vm.HardDrives) THEN {}
    ELSE {Path(d.Path) : d \in Range(Val(remote.vm.HardDrives))}

\* the positions of the declared disks that are not attached
UnattachedAt == {i \in 1..Len(resource.vhds) : resource.vhds[i].path \notin ObservedPaths}

\* the j-th smallest position of a set of positions
NthOf(positions, j) ==
    CHOOSE i \in positions : Cardinality({k \in positions : k <= i}) = j

\* C9: the disk-set comparison records 'VHDs' iff some declared disk's path is
\* not among the observed hard drives; the entry's command text is one
\* Add-VMHardDiskDrive line per unattached declared disk, in declaration order,
\* and none for a disk that is attached.
C9_VhdEntry ==
    VMReadFound
    => (/\ "VHDs" \in DOMAIN ctx.changes <=> UnattachedAt # {}
        /\ "VHDs" \in DOMAIN ctx.changes
            => LET text == Val(ctx.changes["VHDs"]) IN
               /\ Len(text) = Cardinality(UnattachedAt)
               /\ \A j \in 1..Len(text) :
                    /\ text[j].cmd = "Add-VMHardDiskDrive"
                    /\ text[j].vm = resource.name
                    /\ text[j].path = resource.vhds[NthOf(UnattachedAt, j)].path)

C9_Witness ==
    /\ VMReadFound
    /\ Len(resource.vhds) = 2
    /\ resource.vhds[1].path = <<"D:", "a.vhdx">>
    /\ resource.vhds[2].path = <<"D:", "b.vhdx">>
    /\ ObservedPaths = {<<"D:", "a.vhdx">>, <<"D:", "c.vhdx">>}
    /\ "VHDs" \in DOMAIN ctx.changes
    /\ Len(Val(ctx.changes["VHDs"])) = 1
    /\ Val(ctx.changes["VHDs"])[1].path = <<"D:", "b.vhdx">>

\* C10: reconciling a present External switch converges: after read, update
\* (run when read recorded changes), read, the second read's change set is
\* empty and the switch is bound to the adapter named in net_adapter_name.
C10_Converges ==
    (/\ handler = "ExternalSwitch" /\ resource.kind = handler /\ pc = "read"
     /\ remote.switch.present /\ raised = "")
    => (/\ ops = <<"read", "update", "read">>
            => (NoChanges /\ remote.switch.adapter = resource.net_adapter_name)
        /\ (ops = <<"read", "read">> /\ NoChanges)
            => remote.switch.adapter = resource.net_adapter_name)

====
